---- MODULE Spec2Model ----
(***************************************************************************)
(* A model of evaluate_20Q.py: the Evaluation Driver (main), the Game      *)
(* Runner (run_single_game) with its turn protocol and duplicate-guess     *)
(* retry loop, and the two response normalizers.  The guessing agent and   *)
(* the oracle (ValidatorModel) are opaque collaborators: each of their     *)
(* calls returns a value drawn from a small set, or raises.                *)
(***************************************************************************)
EXTENDS Integers, Sequences, FiniteSets, TLC

(***************************************************************************)
(* Bounds of the model.                                                    *)
(***************************************************************************)
\* -N / --num is drawn from -1..MaxNum
MaxNum == 2
\* --max_rounds is drawn from -1..MaxMaxRounds
MaxMaxRounds == 2
\* depth of nested _normalize_answer calls the interpreter allows before it
\* raises RecursionError (sys.getrecursionlimit(), scaled down)
RecursionLimit == 3

(***************************************************************************)
(* Program constants.                                                      *)
(***************************************************************************)
ASK == "ask"
GUESS == "guess"
\* the retry bound of the duplicate-guess loop: `tries < 5`
MaxTries == 5

(***************************************************************************)
(* Text.  A Python str is a sequence of one-character strings.             *)
(***************************************************************************)
Whitespace == {" ", "\t"}

\* str.lower() / str.casefold() on one character (the letters the model uses)
FoldChar(c) ==
    CASE c = "L" -> "l"
      [] c = "Y" -> "y"
      [] c = "E" -> "e"
      [] c = "S" -> "s"
      [] c = "N" -> "n"
      [] c = "O" -> "o"
      [] c = "M" -> "m"
      [] OTHER -> c

Lower(s) == [k \in 1..Len(s) |-> FoldChar(s[k])]

RECURSIVE LStrip(_)
LStrip(s) ==
    IF s = <<>> THEN s
    ELSE IF Head(s) \in Whitespace THEN LStrip(Tail(s)) ELSE s

RECURSIVE RStrip(_)
RStrip(s) ==
    IF s = <<>> THEN s
    ELSE IF s[Len(s)] \in Whitespace THEN RStrip(SubSeq(s, 1, Len(s) - 1)) ELSE s

\* str.strip()
Strip(s) == RStrip(LStrip(s))

\* _norm(s) = s.casefold().strip()
Norm(s) == Strip(Lower(s))

(***************************************************************************)
(* Python values returned by the collaborators.                            *)
(***************************************************************************)
PyNone == [t |-> "NoneType"]
PyBool(b) == [t |-> "bool", b |-> b]
PyStr(s) == [t |-> "str", s |-> s]
PyInt(n) == [t |-> "int", n |-> n]
\* a dict is a reference into Heap, so that a dict can hold itself
PyDict(id) == [t |-> "dict", id |-> id]

\* The dict objects an oracle may return: each a function from its keys.
Heap ==
    <<  [result |-> PyStr(<<"Y", "E", "S">>)],                   \* 1 {"result": "YES"}
        [answer |-> PyDict(2)],                                  \* 2 d["answer"] = d
        [correct |-> PyStr(<<"n", "o">>)],                       \* 3 {"correct": "no"}
        [note |-> PyBool(TRUE)],                                 \* 4 {"note": True}
        [is_correct |-> PyBool(TRUE)],                           \* 5 {"is_correct": True}
        [status |-> PyDict(1), label |-> PyStr(<<"n">>)],        \* 6 {"status": {...}, "label": "n"}
        [match |-> PyStr(<<>>), result |-> PyBool(TRUE)],        \* 7 {"match": "", "result": True}
        [answer |-> PyStr(<<"d", "u", "n", "n", "o">>),
         result |-> PyBool(TRUE)],                               \* 8 {"answer": "dunno", "result": True}
        [response |-> PyDict(1)]                                 \* 9 {"response": {"result": "YES"}}
    >>

\* bool(x)
Truthy(x) ==
    CASE x.t = "NoneType" -> FALSE
      [] x.t = "bool" -> x.b
      [] x.t = "str" -> x.s # <<>>
      [] x.t = "int" -> x.n # 0
      [] x.t = "dict" -> DOMAIN Heap[x.id] # {}
      [] OTHER -> TRUE      \* any other object

\* `x or default`
Or(x, default) == IF Truthy(x) THEN x ELSE default

(***************************************************************************)
(* The response normalizers.                                               *)
(***************************************************************************)
\* (variant: "yes" itself is missing from the affirmative words)
YesWordsShort == {<<"y">>, <<"t", "r", "u", "e">>, <<"1">>}
YesWords == {<<"y", "e", "s">>, <<"y">>, <<"t", "r", "u", "e">>, <<"1">>}
NoWords == {<<"n", "o">>, <<"n">>, <<"f", "a", "l", "s", "e">>, <<"0">>}
MaybeWords == {<<"m", "a", "y", "b", "e">>, <<"u", "n", "s", "u", "r", "e">>, <<"u", "n", "k", "n", "o", "w", "n">>,
               <<"n", "o", "t", " ", "s", "u", "r", "e">>, <<"i", "d", "k">>}
AnswerKeys == <<"answer", "response", "label", "result", "status">>

GuessTrueWords == {<<"y", "e", "s">>, <<"c", "o", "r", "r", "e", "c", "t">>, <<"t", "r", "u", "e">>,
                   <<"r", "i", "g", "h", "t">>, <<"1">>, <<"m", "a", "t", "c", "h">>}
GuessKeys == <<"correct", "is_correct", "match", "result">>

\* (variant: the last key of the priority list that the dict holds)
FirstPresentLast(keys, d) ==
    LET present == {k \in 1..Len(keys) : keys[k] \in DOMAIN d}
    IN  IF present = {} THEN 0
        ELSE CHOOSE k \in present : \A m \in present : k >= m
\* `for key in keys: if key in d:` -- the index of the first key of the
\* priority list that the dict holds, 0 when it holds none
FirstPresent(keys, d) ==
    LET present == {k \in 1..Len(keys) : keys[k] \in DOMAIN d}
    IN  IF present = {} THEN 0
        ELSE CHOOSE k \in present : \A m \in present : k <= m

\* _normalize_answer, called at nesting depth `depth`; the interpreter raises
\* RecursionError when the nesting passes RecursionLimit
RECURSIVE NormalizeAnswerAt(_, _)
NormalizeAnswerAt(ans, depth) ==
    IF depth > RecursionLimit THEN "RecursionError"
    ELSE IF ans.t = "bool" THEN (IF ans.b THEN "yes" ELSE "no")
    ELSE IF ans.t = "str" THEN
        LET s == Lower(Strip(ans.s))
        IN  IF s \in YesWords THEN "yes"
            ELSE IF s \in NoWords THEN "no"
            ELSE IF s \in MaybeWords THEN "maybe"
            ELSE "maybe"
    ELSE IF ans.t = "dict" THEN
        LET d == Heap[ans.id]
            k == FirstPresent(AnswerKeys, d)
        IN  IF k # 0 THEN NormalizeAnswerAt(d[AnswerKeys[k]], depth + 1)
            ELSE "maybe"
    ELSE "maybe"

NormalizeAnswer(ans) == NormalizeAnswerAt(ans, 1)

\* _parse_guess_result
ParseGuessResult(res) ==
    IF res.t = "bool" THEN res.b
    ELSE IF res.t = "str" THEN Lower(Strip(res.s)) \in GuessTrueWords
    ELSE IF res.t = "dict" THEN
        LET d == Heap[res.id]
            k == FirstPresent(GuessKeys, d)
        IN  IF k # 0 THEN Truthy(d[GuessKeys[k]]) ELSE FALSE
    ELSE FALSE

(***************************************************************************)
(* The collaborators.                                                      *)
(***************************************************************************)
FallbackQuestion == <<"I", "s", " ", "i", "t", " ", "r", "e", "l", "a", "t", "e", "d", " ", "t", "o", " ", "a", " ", "w", "e", "l", "l", "-", "k", "n", "o", "w", "n", " ", "p", "e", "r", "s", "o", "n", "?">>
FallbackGuess == <<"u", "n", "k", "n", "o", "w", "n">>

\* what guesser_agent(obs) may return: nothing, blank text, or text
AgentReturns(turnType) ==
    IF turnType = ASK
    THEN {PyNone, PyStr(<<" ">>), PyStr(<<" ", "q", "?">>)}
    ELSE {PyNone, PyStr(<<"l", " ">>), PyStr(<<" ", "L">>)}

\* what validator.validate_question(question) may return: an oracle answers
\* from the question text (as the self-test's stub does), here with a dict
\* for a real question and a non-answer for the fallback question, or it
\* returns the dict that holds itself
OracleAnswers(question) ==
    {IF question = FallbackQuestion THEN PyInt(1) ELSE PyDict(1), PyDict(2)}

\* what validator.validate_guess may return
RawResults ==
    {PyBool(FALSE), PyBool(TRUE), PyStr(<<"M", "a", "t", "c", "h", " ">>),
     PyDict(3), PyDict(5)}

\* What a ValidatorModel instance exposes under a name:
\*   data v        a plain attribute holding v
\*   method v      a method returning v
\*   method_raises a method that raises when called
\*   flaky         a property that is read once and raises on the next read
\*   raises        a property whose read raises an error other than
\*                 AttributeError
Data(v) == [kind |-> "data", v |-> v]
Method(v) == [kind |-> "method", v |-> v]
MethodRaises == [kind |-> "method_raises", v |-> PyNone]
Flaky == [kind |-> "flaky", v |-> PyNone]
PropertyRaises == [kind |-> "raises", v |-> PyNone]
\* a bound method object, as a value
PyMethod == [t |-> "method"]

TargetAttrs == <<"target", "word", "answer", "label", "solution", "keyword",
                 "gold", "ground_truth">>
TargetMeths == <<"get_target", "get_word", "get_answer">>

\* the oracle classes of the model: the self-test's stub, with its target
\* attribute; one whose probed names all fail inside the try blocks; one
\* whose label property raises
ValidatorClasses ==
    {[target |-> Data(PyStr(<<"l">>))],
     [word |-> Flaky, get_target |-> MethodRaises],
     [label |-> PropertyRaises]}

Returned(v) == [raised |-> FALSE, v |-> v]
Propagated == [raised |-> TRUE, v |-> PyNone]

\* lines 87-93: the second loop of _maybe_get_target_word, from the k-th name
RECURSIVE ProbeMeths(_, _)
ProbeMeths(attrs, k) ==
    IF k > Len(TargetMeths) THEN Returned(PyNone)
    ELSE IF TargetMeths[k] \notin DOMAIN attrs THEN ProbeMeths(attrs, k + 1)
    ELSE LET a == attrs[TargetMeths[k]]
         IN  IF a.kind = "raises" THEN Propagated     \* hasattr is outside the try
             ELSE IF a.kind = "method" THEN Returned(a.v)
             ELSE ProbeMeths(attrs, k + 1)            \* except Exception: pass

\* lines 80-85: the first loop of _maybe_get_target_word, from the k-th name
RECURSIVE ProbeAttrs(_, _)
ProbeAttrs(attrs, k) ==
    IF k > Len(TargetAttrs) THEN ProbeMeths(attrs, 1)
    ELSE IF TargetAttrs[k] \notin DOMAIN attrs THEN ProbeAttrs(attrs, k + 1)
    ELSE LET a == attrs[TargetAttrs[k]]
         IN  IF a.kind = "raises" THEN Propagated     \* hasattr is outside the try
             ELSE IF a.kind = "flaky" THEN ProbeAttrs(attrs, k + 1)
             ELSE IF a.kind = "data" THEN Returned(a.v)
             ELSE Returned(PyMethod)

\* _maybe_get_target_word
MaybeGetTargetWord(vm) == ProbeAttrs(vm.attrs, 1)

(***************************************************************************)
(* State.  The variables carry the names of main's and run_single_game's   *)
(* locals; pc is the position of the single thread of control.             *)
(***************************************************************************)
VARIABLES
    pc,                 \* position in main / run_single_game
    exc,                \* the exception that ended the run, "none" while it runs
    total, max_rounds,  \* args.num, args.max_rounds
    wins, results, i,   \* main's tally, records and game number
    output,             \* the lines printed to stdout
    validator,          \* the oracle instance of the game being played
    target,
    questions, answers, guesses, past_guesses_norm,
    qnum, guess, tries,
    raw_ans, raw_guess_res, correct,
    ret,                \* the tuple run_single_game returns
    verdicts,           \* `correct` of each round of this game, in order
    turn,               \* this GUESS turn: agent calls made, duplicates returned
    retried_out,        \* per accepted guess: were its turn's retries used up on duplicates
    obs,                \* the Observation last built, holding the lists by reference
    seen,               \* what the agent saw through obs when it was last called
    last_call           \* the collaborator call made last in this game

argVars == <<total, max_rounds>>
mainVars == <<wins, results, i, output>>
histVars == <<questions, answers, guesses, past_guesses_norm>>
guessVars == <<guess, tries, turn, retried_out>>
oracleVars == <<raw_ans, raw_guess_res, correct, verdicts>>
agentVars == <<obs, seen, last_call>>
vars == <<pc, exc, total, max_rounds, wins, results, i, output, validator,
          target, questions, answers, guesses, past_guesses_norm, qnum, guess,
          tries, raw_ans, raw_guess_res, correct, ret, verdicts, turn,
          retried_out, obs, seen, last_call>>

NoRecord == [won |-> FALSE, final_guess |-> <<>>, rounds_used |-> 0, target |-> PyNone]
NoTurn == [agent_calls |-> 0, duplicates |-> 0]
NoObs == [turnType |-> "none", questions |-> "none", answers |-> "none",
          question_guesses |-> "none", answer_guesses_list |-> "none"]
NoView == [turnType |-> "none", questions |-> <<>>, answers |-> <<>>,
           guesses |-> <<>>]

\* the locals of a run_single_game frame before the function has bound them
FreshFrame ==
    /\ target = PyNone
    /\ questions = <<>> /\ answers = <<>> /\ guesses = <<>>
    /\ past_guesses_norm = {}
    /\ qnum = 0 /\ guess = <<>> /\ tries = 0
    /\ raw_ans = PyNone /\ raw_guess_res = PyNone /\ correct = FALSE
    /\ ret = NoRecord
    /\ verdicts = <<>> /\ turn = NoTurn /\ retried_out = <<>>
    /\ obs = NoObs /\ seen = NoView /\ last_call = "none"

\* run_single_game has returned: its locals are gone
\* (variant: the set of accepted guesses outlives the game)
DropFrameKeepsAccepted ==
    /\ target' = PyNone
    /\ questions' = <<>> /\ answers' = <<>> /\ guesses' = <<>>
    /\ past_guesses_norm' = past_guesses_norm
    /\ qnum' = 0 /\ guess' = <<>> /\ tries' = 0
    /\ raw_ans' = PyNone /\ raw_guess_res' = PyNone /\ correct' = FALSE
    /\ ret' = NoRecord
    /\ verdicts' = <<>> /\ turn' = NoTurn /\ retried_out' = <<>>
    /\ obs' = NoObs /\ seen' = NoView /\ last_call' = "none"
DropFrame ==
    /\ target' = PyNone
    /\ questions' = <<>> /\ answers' = <<>> /\ guesses' = <<>>
    /\ past_guesses_norm' = {}
    /\ qnum' = 0 /\ guess' = <<>> /\ tries' = 0
    /\ raw_ans' = PyNone /\ raw_guess_res' = PyNone /\ correct' = FALSE
    /\ ret' = NoRecord
    /\ verdicts' = <<>> /\ turn' = NoTurn /\ retried_out' = <<>>
    /\ obs' = NoObs /\ seen' = NoView /\ last_call' = "none"

\* main, lines 175-179: the arguments are parsed, nothing is validated
Init ==
    /\ total \in -1..MaxNum
    /\ max_rounds \in -1..MaxMaxRounds
    /\ wins = 0 /\ results = <<>> /\ i = 0 /\ output = <<>>
    /\ pc = "for_games" /\ exc = "none"
    /\ \E a \in ValidatorClasses : validator = [id |-> 0, attrs |-> a]
    /\ FreshFrame

\* (variant: main catches the failure of a game and goes on to the next)
RaiseSwallowed(e) ==
    /\ pc' = "for_games"
    /\ exc' = e

\* An exception nobody catches: neither run_single_game nor main has a
\* handler around the collaborator calls, so it ends the run.
Raise(e) ==
    /\ pc' = "aborted"
    /\ exc' = e

\* the guess kept from an agent return: (guesser_agent(obs) or "").strip(),
\* "unknown" when that is empty
\* (variant: the trimmed return is kept as it is, blank or not)
GuessOfNoFallback(r) == Strip(Or(r, PyStr(<<>>)).s)
GuessOf(r) ==
    LET g == Strip(Or(r, PyStr(<<>>)).s)
    IN  IF g = <<>> THEN FallbackGuess ELSE g

\* the question kept from an agent return
QuestionOf(r) ==
    LET q == Strip(Or(r, PyStr(<<>>)).s)
    IN  IF q = <<>> THEN FallbackQuestion ELSE q

\* the condition of the retry loop, line 152
IsDuplicate(g, past) == Norm(g) \in past
\* (variant: the guess is looked up as typed, not normalized)
RetryConditionExact(g, past, n) == g \in past /\ n < MaxTries
\* (variant: the bound is tested with <=)
RetryConditionOneMore(g, past, n) == IsDuplicate(g, past) /\ n <= MaxTries
RetryCondition(g, past, n) == IsDuplicate(g, past) /\ n < MaxTries

\* lines 120-126 and 139-145: the Observation is a SimpleNamespace whose
\* fields are the game's own list objects, not copies
\* (variant: the guesses field is wired to the questions list)
ObservationMiswired(turnType) ==
    [turnType |-> turnType, questions |-> "questions", answers |-> "answers",
     question_guesses |-> "questions", answer_guesses_list |-> "answers"]
Observation(turnType) ==
    [turnType |-> turnType, questions |-> "questions", answers |-> "answers",
     question_guesses |-> "guesses", answer_guesses_list |-> "answers"]

\* the list a field of an Observation refers to, as it is now
Deref(ref) ==
    CASE ref = "questions" -> questions
      [] ref = "answers" -> answers
      [] ref = "guesses" -> guesses
      [] OTHER -> <<>>

\* what getattr(obs, ...) shows now
View(o) ==
    [turnType |-> o.turnType, questions |-> Deref(o.questions),
     answers |-> Deref(o.answers), guesses |-> Deref(o.question_guesses)]

(***************************************************************************)
(* main                                                                    *)
(***************************************************************************)
\* line 181: for i in range(1, total + 1)
ForGame ==
    /\ pc = "for_games"
    /\ IF i < total
       THEN /\ i' = i + 1
            /\ pc' = "run_single_game"
       ELSE /\ i' = i
            /\ pc' = "summary"
    /\ UNCHANGED <<exc, argVars, wins, results, output, validator, target,
                   histVars, qnum, guessVars, oracleVars, ret, agentVars>>

GameLine(n, r) ==
    [line |-> "game", game |-> n, status |-> IF r.won THEN "WIN" ELSE "LOSS",
     rounds |-> r.rounds_used, final_guess |-> r.final_guess,
     target |-> IF Truthy(r.target) THEN r.target ELSE PyNone]

\* (variant: every game is tallied as a win)
TallyEvery(w, won) == w + 1

\* line 183: wins += int(won)
Tally(w, won) == w + (IF won THEN 1 ELSE 0)

\* lines 182-187: the record comes back, is tallied, printed and kept; the
\* frame of run_single_game is gone
RecordGame ==
    /\ pc = "returned"
    /\ wins' = Tally(wins, ret.won)
    /\ output' = Append(output, GameLine(i, ret))
    /\ results' = Append(results, ret)
    /\ pc' = "for_games"
    /\ DropFrame
    /\ UNCHANGED <<exc, argVars, i, validator>>

Separator == [line |-> "separator"]

\* wins/total formatted with .1%, in tenths of a percent
WinRate(w, t) == IF t > 0 THEN (2000 * w + t) \div (2 * t) ELSE 0

SummaryLine(w, t) == [line |-> "summary", wins |-> w, total |-> t, rate |-> WinRate(w, t)]

\* lines 189-191: the separator is printed, then wins/total is evaluated
Summary ==
    /\ pc = "summary"
    /\ IF total = 0
       THEN /\ output' = Append(output, Separator)
            /\ Raise("ZeroDivisionError")
       ELSE /\ output' = output \o <<Separator, SummaryLine(wins, total), Separator>>
            /\ pc' = "done"
            /\ exc' = exc
    /\ UNCHANGED <<argVars, wins, results, i, validator, target, histVars,
                   qnum, guessVars, oracleVars, ret, agentVars>>

(***************************************************************************)
(* run_single_game                                                         *)
(***************************************************************************)
\* line 106: validator = ValidatorModel()
NewValidator ==
    /\ pc = "run_single_game"
    /\ \/ /\ validator' = [id |-> validator.id + 1, attrs |-> validator.attrs]
          /\ pc' = "probe_target"
          /\ exc' = exc
       \/ /\ Raise("OracleError")
          /\ validator' = validator
    /\ UNCHANGED <<argVars, mainVars, target, histVars, qnum, guessVars,
                   oracleVars, ret, agentVars>>

\* lines 108-116: the target label, then the empty histories
ProbeTarget ==
    /\ pc = "probe_target"
    /\ LET probe == MaybeGetTargetWord(validator)
       IN  IF probe.raised
           THEN /\ Raise("OracleError")
                /\ UNCHANGED <<target, histVars>>
           ELSE /\ target' = probe.v
                /\ questions' = <<>> /\ answers' = <<>> /\ guesses' = <<>>
                /\ past_guesses_norm' = {}
                /\ pc' = "for_rounds"
                /\ exc' = exc
    /\ UNCHANGED <<argVars, mainVars, validator, qnum, guessVars,
                   oracleVars, ret, agentVars>>

\* line 118: for qnum in range(1, max_rounds + 1)
ForRound ==
    /\ pc = "for_rounds"
    /\ IF qnum < max_rounds
       THEN /\ qnum' = qnum + 1
            /\ pc' = "ask"
       ELSE /\ qnum' = qnum
            /\ pc' = "exhausted"
    /\ UNCHANGED <<exc, argVars, mainVars, validator, target, histVars,
                   guessVars, oracleVars, ret, agentVars>>

\* lines 120-131: the ASK turn
AskTurn ==
    /\ pc = "ask"
    /\ obs' = Observation(ASK)
    /\ seen' = View(Observation(ASK))
    /\ last_call' = "agent_ask"
    /\ \/ /\ \E r \in AgentReturns(ASK) :
                questions' = Append(questions, QuestionOf(r))
          /\ pc' = "validate_question"
          /\ exc' = exc
       \/ /\ Raise("AgentError")
          /\ questions' = questions
    /\ UNCHANGED <<argVars, mainVars, validator, target, answers, guesses,
                   past_guesses_norm, qnum, guessVars, oracleVars, ret>>

\* lines 134-136: the oracle answers the question, the answer is normalized
ValidateQuestion ==
    /\ pc = "validate_question"
    /\ last_call' = "validate_question"
    /\ UNCHANGED <<obs, seen>>
    /\ \/ \E raw \in OracleAnswers(questions[Len(questions)]) :
            /\ raw_ans' = raw
            /\ LET ans == NormalizeAnswer(raw)
               IN  IF ans = "RecursionError"
                   THEN /\ Raise("RecursionError")
                        /\ answers' = answers
                   ELSE /\ answers' = Append(answers, ans)
                        /\ pc' = "guess"
                        /\ exc' = exc
       \/ /\ Raise("OracleError")
          /\ UNCHANGED <<raw_ans, answers>>
    /\ UNCHANGED <<argVars, mainVars, validator, target, questions, guesses,
                   past_guesses_norm, qnum, guessVars, raw_guess_res, correct,
                   verdicts, ret>>

\* the GUESS turn after the agent returned g: one more call, one more
\* duplicate if g is one
Logged(t, g, past) ==
    [agent_calls |-> t.agent_calls + 1,
     duplicates |-> t.duplicates + (IF IsDuplicate(g, past) THEN 1 ELSE 0)]

\* lines 139-151: the GUESS turn's first guess
GuessTurn ==
    /\ pc = "guess"
    /\ obs' = Observation(GUESS)
    /\ seen' = View(Observation(GUESS))
    /\ last_call' = "agent_guess"
    /\ tries' = 0
    /\ \/ /\ \E r \in AgentReturns(GUESS) :
                /\ guess' = GuessOf(r)
                /\ turn' = Logged(NoTurn, GuessOf(r), past_guesses_norm)
          /\ pc' = "while_duplicate"
          /\ exc' = exc
       \/ /\ Raise("AgentError")
          /\ UNCHANGED <<guess, turn>>
    /\ UNCHANGED <<argVars, mainVars, validator, target, histVars, qnum,
                   retried_out, oracleVars, ret>>

\* lines 152-155: the guess is a duplicate and tries are left: ask again
\* (variant: the rejected guess is appended to the guesses before asking again)
RetryGuessRecords ==
    /\ pc = "while_duplicate"
    /\ RetryCondition(guess, past_guesses_norm, tries)
    /\ obs' = obs
    /\ seen' = View(obs)
    /\ last_call' = "agent_guess"
    /\ guesses' = Append(guesses, guess)
    /\ \/ /\ \E r \in AgentReturns(GUESS) :
                /\ guess' = GuessOf(r)
                /\ turn' = Logged(turn, GuessOf(r), past_guesses_norm)
          /\ tries' = tries + 1
          /\ pc' = pc
          /\ exc' = exc
       \/ /\ Raise("AgentError")
          /\ UNCHANGED <<guess, tries, turn>>
    /\ UNCHANGED <<argVars, mainVars, validator, target, questions, answers,
                   past_guesses_norm, qnum, retried_out, oracleVars, ret>>
RetryGuess ==
    /\ pc = "while_duplicate"
    /\ RetryCondition(guess, past_guesses_norm, tries)
    /\ obs' = obs
    /\ seen' = View(obs)
    /\ last_call' = "agent_guess"
    /\ \/ /\ \E r \in AgentReturns(GUESS) :
                /\ guess' = GuessOf(r)
                /\ turn' = Logged(turn, GuessOf(r), past_guesses_norm)
          /\ tries' = tries + 1
          /\ pc' = pc
          /\ exc' = exc
       \/ /\ Raise("AgentError")
          /\ UNCHANGED <<guess, tries, turn>>
    /\ UNCHANGED <<argVars, mainVars, validator, target, histVars, qnum,
                   retried_out, oracleVars, ret>>

\* lines 157-158: the loop is left, the guess is accepted
AcceptGuess ==
    /\ pc = "while_duplicate"
    /\ ~RetryCondition(guess, past_guesses_norm, tries)
    /\ past_guesses_norm' = past_guesses_norm \cup {Norm(guess)}
    /\ guesses' = Append(guesses, guess)
    /\ retried_out' = Append(retried_out,
                              /\ tries = MaxTries
                              /\ turn.duplicates = turn.agent_calls)
    /\ pc' = "validate_guess"
    /\ UNCHANGED <<exc, argVars, mainVars, validator, target, questions,
                   answers, qnum, guess, tries, turn, oracleVars, ret,
                   agentVars>>

\* (variant: the round is reported zero-based)
GameRecordZeroBased(won, final_guess, rounds_used, maybe_target) ==
    [won |-> won, final_guess |-> final_guess, rounds_used |-> rounds_used - 1,
     target |-> maybe_target]

\* the tuple run_single_game returns, lines 164 and 168
GameRecord(won, final_guess, rounds_used, maybe_target) ==
    [won |-> won, final_guess |-> final_guess, rounds_used |-> rounds_used,
     target |-> maybe_target]

\* lines 163-164: where the game goes after the verdict on a guess
\* (variant: the game plays on after a correct guess)
AfterVerdictPlaysOn(c) == "for_rounds"
AfterVerdict(c) == IF c THEN "returned" ELSE "for_rounds"

\* lines 161-164: the oracle checks the guess; a correct guess ends the game
ValidateGuess ==
    /\ pc = "validate_guess"
    /\ last_call' = "validate_guess"
    /\ UNCHANGED <<obs, seen>>
    /\ \/ \E raw \in RawResults :
            /\ raw_guess_res' = raw
            /\ correct' = ParseGuessResult(raw)
            /\ verdicts' = Append(verdicts, ParseGuessResult(raw))
            /\ ret' = IF ParseGuessResult(raw)
                      THEN GameRecord(TRUE, guess, qnum, target)
                      ELSE ret
            /\ pc' = AfterVerdict(ParseGuessResult(raw))
            /\ exc' = exc
       \/ /\ Raise("OracleError")
          /\ UNCHANGED <<raw_guess_res, correct, verdicts, ret>>
    /\ UNCHANGED <<argVars, mainVars, validator, target, histVars, qnum,
                   guessVars, raw_ans>>

\* line 167: the final guess of a game that used up its rounds
\* (variant: the first guess is taken, not the last)
FinalGuessFirst(gs) == IF gs # <<>> THEN gs[1] ELSE <<>>
FinalGuess(gs) == IF gs # <<>> THEN gs[Len(gs)] ELSE <<>>

\* lines 167-168: the rounds are used up
Exhausted ==
    /\ pc = "exhausted"
    /\ ret' = GameRecord(FALSE, FinalGuess(guesses), max_rounds, target)
    /\ pc' = "returned"
    /\ UNCHANGED <<exc, argVars, mainVars, validator, target, histVars, qnum,
                   guessVars, oracleVars, agentVars>>

Next ==
    \/ ForGame
    \/ NewValidator
    \/ ProbeTarget
    \/ ForRound
    \/ AskTurn
    \/ ValidateQuestion
    \/ GuessTurn
    \/ RetryGuess
    \/ AcceptGuess
    \/ ValidateGuess
    \/ Exhausted
    \/ RecordGame
    \/ Summary

Spec == Init /\ [][Next]_vars

(***************************************************************************)
(* _normalize_answer on its own: a raw answer is drawn, normalized, and    *)
(* the canonical string that came out is normalized once more.             *)
(***************************************************************************)
\* the str a canonical answer is: the literals "yes", "no", "maybe"
Text(a) ==
    CASE a = "yes" -> <<"y", "e", "s">>
      [] a = "no" -> <<"n", "o">>
      [] a = "maybe" -> <<"m", "a", "y", "b", "e">>

Padded(w) == <<" ">> \o w \o <<"\t">>

\* raw answers of every shape _normalize_answer tells apart
RawAnswers ==
    LET words == YesWords \cup NoWords \cup MaybeWords
                     \cup {<<"d", "u", "n", "n", "o">>, <<>>}
        cased == {<<"Y", "E", "S">>, <<"N", "o">>, <<"M", "a", "y", "b", "e">>,
                  <<"Y">>, <<" ", "N", "O", " ">>}
    IN  {PyNone, PyBool(TRUE), PyBool(FALSE), PyInt(0), PyInt(1)}
            \cup {PyDict(id) : id \in 1..Len(Heap)}
            \cup {PyStr(w) : w \in words \cup cased}
            \cup {PyStr(Padded(w)) : w \in words}

NormInit ==
    /\ raw_ans \in RawAnswers
    /\ pc = "normalize" /\ exc = "none"
    /\ total = 0 /\ max_rounds = 0
    /\ wins = 0 /\ results = <<>> /\ i = 0 /\ output = <<>>
    /\ validator = [id |-> 0, attrs |-> [target |-> Data(PyStr(<<"l">>))]]
    /\ target = PyNone
    /\ questions = <<>> /\ answers = <<>> /\ guesses = <<>>
    /\ past_guesses_norm = {}
    /\ qnum = 0 /\ guess = <<>> /\ tries = 0
    /\ raw_guess_res = PyNone /\ correct = FALSE
    /\ ret = NoRecord
    /\ verdicts = <<>> /\ turn = NoTurn /\ retried_out = <<>>
    /\ obs = NoObs /\ seen = NoView /\ last_call = "none"

\* ans = _normalize_answer(raw_ans)
NormalizeOnce ==
    /\ pc = "normalize"
    /\ LET ans == NormalizeAnswer(raw_ans)
       IN  IF ans = "RecursionError"
           THEN /\ Raise("RecursionError")
                /\ answers' = answers
           ELSE /\ answers' = Append(answers, ans)
                /\ pc' = "renormalize"
                /\ exc' = exc
    /\ UNCHANGED <<argVars, mainVars, validator, target, questions, guesses,
                   past_guesses_norm, qnum, guessVars, raw_ans, raw_guess_res,
                   correct, verdicts, ret, agentVars>>

\* _normalize_answer(ans), on the canonical string that came out
NormalizeAgain ==
    /\ pc = "renormalize"
    /\ answers' = Append(answers,
                         NormalizeAnswer(PyStr(Text(answers[Len(answers)]))))
    /\ pc' = "normalized"
    /\ exc' = exc
    /\ UNCHANGED <<argVars, mainVars, validator, target, questions, guesses,
                   past_guesses_norm, qnum, guessVars, raw_ans, raw_guess_res,
                   correct, verdicts, ret, agentVars>>

NormNext ==
    \/ NormalizeOnce
    \/ NormalizeAgain

SpecNorm == NormInit /\ [][NormNext]_vars

(***************************************************************************)
(* Properties.                                                             *)
(***************************************************************************)
CollaboratorErrors == {"AgentError", "OracleError"}

\* the accepted guess b repeats an earlier accepted guess of this game
Repeats(b) == \E a \in 1..(b - 1) : Norm(guesses[a]) = Norm(guesses[b])

\* C1: with max_rounds >= 1, the record a game returns has rounds_used in
\* 1..max_rounds, and it is a win exactly when the guess validation
\* normalized to true in round rounds_used and to false in every round
\* before it.
C1_RecordMatchesVerdicts ==
    (pc = "returned" /\ max_rounds >= 1) =>
        /\ ret.rounds_used \in 1..max_rounds
        /\ ret.rounds_used <= Len(verdicts)
        /\ ret.won <=> /\ verdicts[ret.rounds_used]
                       /\ \A k \in 1..(ret.rounds_used - 1) : ~verdicts[k]

\* a game won in its second round
C1_WonInSecondRound ==
    pc = "returned" /\ max_rounds >= 2 /\ ret.won /\ ret.rounds_used = 2

\* C2: two accepted guesses of one game have the same case-folded, trimmed
\* form only if the later one was accepted in a GUESS turn that used up its 5
\* retries with every returned guess a duplicate.
C2_RepeatOnlyWhenRetriedOut ==
    /\ Len(retried_out) = Len(guesses)
    /\ \A b \in 1..Len(guesses) : Repeats(b) => retried_out[b]

\* a guess that differs from an earlier one only by case was accepted after
\* the retries were used up
C2_RepeatAccepted ==
    /\ Len(guesses) = 2
    /\ guesses[1] # guesses[2]
    /\ Repeats(2)
    /\ retried_out[2]

\* C3: with N <= 0 or max_rounds <= 0 the run is rejected before any game:
\* no oracle is constructed, nothing is printed, and the run does not end
\* normally.
C3_ConfigurationRejected ==
    (total <= 0 \/ max_rounds <= 0) =>
        /\ validator.id = 0
        /\ output = <<>>
        /\ pc # "done"

\* C4: wins/total is never evaluated with total = 0.
C4_NoDivisionByZero == exc # "ZeroDivisionError"

\* a value the claim counts as affirmative: boolean true or affirmative text
AffirmativeValue(v) ==
    \/ v.t = "bool" /\ v.b
    \/ v.t = "str" /\ Lower(Strip(v.s)) \in GuessTrueWords

\* a raw guess result the claim counts as affirmative
Affirmative(r) ==
    \/ AffirmativeValue(r)
    \/ /\ r.t = "dict"
       /\ LET k == FirstPresent(GuessKeys, Heap[r.id])
          IN  k # 0 /\ AffirmativeValue(Heap[r.id][GuessKeys[k]])

\* C5: a guess is judged correct, and a game won, only on an affirmative raw
\* result.
C5_NeverFalselyWon == correct => Affirmative(raw_guess_res)

\* C6: normalizing an answer never raises and yields yes, no or maybe.
C6_NormalizeAnswerTotal ==
    /\ exc # "RecursionError"
    /\ \A k \in 1..Len(answers) : answers[k] \in {"yes", "no", "maybe"}

\* C7: after a run with N >= 1 that printed its summary, N games were run
\* one after another, the N game lines are numbered 1..N in order, the
\* summary's total is N and its win count is the number of won records,
\* which is the number of WIN lines.
C7_SummaryMatchesGames ==
    (pc = "done" /\ total >= 1) =>
        /\ i = total
        /\ validator.id = total
        /\ Len(results) = total
        /\ Len(output) = total + 3
        /\ \A k \in 1..total :
              /\ output[k].line = "game"
              /\ output[k].game = k
              /\ output[k].status = (IF results[k].won THEN "WIN" ELSE "LOSS")
        /\ output[total + 2].line = "summary"
        /\ output[total + 2].total = total
        /\ output[total + 2].wins = Cardinality({k \in 1..total : results[k].won})
        /\ output[total + 2].wins =
               Cardinality({k \in 1..total : output[k].status = "WIN"})

\* a run of two games, one won and one lost
C7_OneWinOneLoss ==
    /\ pc = "done" /\ total = 2
    /\ results[1].won /\ ~results[2].won

\* C8: when no collaborator call raises and max_rounds >= 1, a game that was
\* started ends with a record: it does not stop short of one.
C8_GameYieldsRecord ==
    (pc = "aborted" /\ i >= 1 /\ max_rounds >= 1) => exc \in CollaboratorErrors

\* C9: a GUESS turn calls the agent once, and again only after a duplicate
\* and while fewer than 5 retries were made; a guess that is no duplicate
\* ends the turn at once, and a duplicate is accepted only as the 6th guess
\* of 6 duplicates.
C9_RetryDiscipline ==
    /\ pc \in {"while_duplicate", "validate_guess"} =>
          /\ turn.agent_calls = tries + 1
          /\ turn.agent_calls \in 1..6
          /\ turn.duplicates >= turn.agent_calls - 1
    /\ pc = "validate_guess" =>
          IF Repeats(Len(guesses))
          THEN turn.agent_calls = 6 /\ turn.duplicates = 6
          ELSE turn.duplicates = turn.agent_calls - 1

\* the agent returned an accepted guess six times and the sixth was accepted
C9_SixCalls ==
    /\ pc = "validate_guess"
    /\ turn.agent_calls = 6
    /\ Repeats(Len(guesses))

\* C10: once an agent or oracle call has raised, the run is over with that
\* exception: no summary was or is printed, the game's record is not kept,
\* and nothing happens any more (no call, no further game).
C10_FailurePropagates ==
    /\ [](exc \in CollaboratorErrors =>
            /\ pc = "aborted"
            /\ Len(results) = i - 1
            /\ \A k \in 1..Len(output) : output[k].line = "game")
    /\ [][exc \notin CollaboratorErrors]_vars

\* the agent raised in the second round of the first of two games
C10_AgentRaisedInGame ==
    /\ pc = "aborted" /\ exc = "AgentError"
    /\ i = 1 /\ total = 2
    /\ Len(guesses) = 1

\* C11: probing for the target label never fails the game: whatever happens
\* in the probe, the step after it is the first round, never an abort.
C11_ProbingNeverFails ==
    [][pc = "probe_target" => pc' = "for_rounds"]_vars

\* the non-blank texts the agent may return at a turn, trimmed
AgentTexts(turnType) ==
    {Strip(r.s) : r \in {x \in AgentReturns(turnType) :
                            x.t = "str" /\ Strip(x.s) # <<>>}}

\* C12: every question and every guess that is recorded or is on its way to
\* the oracle is non-empty after trimming: it is the agent's trimmed text, or
\* the fallback question / the fallback guess where the agent gave none.
C12_FallbacksFill ==
    /\ \A k \in 1..Len(questions) :
          /\ Strip(questions[k]) # <<>>
          /\ questions[k] \in AgentTexts(ASK) \cup {FallbackQuestion}
    /\ \A k \in 1..Len(guesses) :
          /\ Strip(guesses[k]) # <<>>
          /\ guesses[k] \in AgentTexts(GUESS) \cup {FallbackGuess}
    /\ pc \in {"while_duplicate", "validate_guess"} =>
          /\ Strip(guess) # <<>>
          /\ guess \in AgentTexts(GUESS) \cup {FallbackGuess}

\* a game in which the agent gave no question and no guess, retries included
C12_SilentAgent ==
    /\ Len(guesses) = 2 /\ Len(questions) = 2
    /\ questions[1] = FallbackQuestion
    /\ guesses[1] = FallbackGuess /\ guesses[2] = FallbackGuess
    /\ retried_out[2]

\* which collaborator call may follow which within a game
CallOrder ==
    {<<"none", "agent_ask">>, <<"agent_ask", "validate_question">>,
     <<"validate_question", "agent_guess">>, <<"agent_guess", "agent_guess">>,
     <<"agent_guess", "validate_guess">>, <<"validate_guess", "agent_ask">>}

\* C13: within a game the calls come in the order agent(ASK),
\* validate_question, agent(GUESS) once or more, validate_guess; the first
\* call is the ASK of round 1 and the agent is handed ASK and GUESS
\* Observations accordingly; a round that is over has had one
\* question-validation and one guess-validation; after a verdict that
\* normalizes to true the game makes no further call.
C13_CallOrder ==
    /\ [](/\ last_call = "agent_ask" => obs.turnType = ASK
          /\ last_call = "agent_guess" => obs.turnType = GUESS
          /\ pc \in {"for_rounds", "exhausted", "returned"} =>
                Len(answers) = qnum /\ Len(verdicts) = qnum
          /\ pc \in {"ask", "validate_question"} =>
                Len(answers) = qnum - 1 /\ Len(verdicts) = qnum - 1
          /\ pc \in {"guess", "while_duplicate", "validate_guess"} =>
                Len(answers) = qnum /\ Len(verdicts) = qnum - 1)
    /\ [][/\ pc # "returned" =>
               \/ last_call' = last_call
               \/ <<last_call, last_call'>> \in CallOrder
          /\ (last_call = "none" /\ last_call' # "none") => qnum = 1
          /\ (verdicts # <<>> /\ verdicts[Len(verdicts)]) =>
               last_call' = "none" /\ pc' = "for_games"]_vars

\* a game won in its second round, whose GUESS turn called the agent again
C13_WonAfterRetry ==
    /\ pc = "returned" /\ last_call = "validate_guess"
    /\ Len(verdicts) = 2 /\ verdicts[2] /\ ~verdicts[1]
    /\ turn.agent_calls >= 2

\* C14: an Observation is an immutable snapshot: the questions, answers and
\* guesses visible through the Observation last handed to the agent are those
\* that were visible when the agent was called with it.
C14_ObservationImmutable == obs # NoObs => View(obs) = seen

\* s is an initial segment of t
IsPrefix(s, t) == Len(s) <= Len(t) /\ SubSeq(t, 1, Len(s)) = s

\* C15: the agent called at the ASK turn of round n sees n-1 questions, n-1
\* answers and n-1 guesses; called at the GUESS turn of round n it sees n
\* questions, n answers and n-1 guesses; within a game the three sequences
\* only grow, by appending at the end.
C15_HistoryLengths ==
    /\ [](/\ last_call = "agent_ask" =>
                /\ seen.turnType = ASK
                /\ Len(seen.questions) = qnum - 1
                /\ Len(seen.answers) = qnum - 1
                /\ Len(seen.guesses) = qnum - 1
          /\ last_call = "agent_guess" =>
                /\ seen.turnType = GUESS
                /\ Len(seen.questions) = qnum
                /\ Len(seen.answers) = qnum
                /\ Len(seen.guesses) = qnum - 1)
    /\ [][pc # "returned" =>
               /\ IsPrefix(questions, questions')
               /\ IsPrefix(answers, answers')
               /\ IsPrefix(guesses, guesses')
               /\ Len(questions') <= Len(questions) + 1
               /\ Len(answers') <= Len(answers) + 1
               /\ Len(guesses') <= Len(guesses) + 1]_vars

\* the agent called at the GUESS turn of the second round
C15_SecondGuessTurn ==
    /\ last_call = "agent_guess" /\ qnum = 2 /\ pc = "while_duplicate"
    /\ Len(seen.questions) = 2 /\ Len(seen.guesses) = 1

\* C16: a step of the retry loop that does not accept the guess leaves the
\* questions, answers, guesses and the set of accepted guesses as they were,
\* makes no oracle call, and calls the agent again with the same Observation
\* showing the same history; the step that leaves the loop adds the accepted
\* guess, and only it, to the guesses and to the accepted set.
C16_RejectedChangesNothing ==
    [][/\ (pc = "while_duplicate" /\ pc' # "validate_guess") =>
            /\ UNCHANGED histVars
            /\ UNCHANGED oracleVars
            /\ obs' = obs /\ seen' = seen /\ obs.turnType = GUESS
       /\ (pc = "while_duplicate" /\ pc' = "validate_guess") =>
            /\ guesses' = Append(guesses, guess)
            /\ past_guesses_norm' = past_guesses_norm \cup {Norm(guess)}
            /\ UNCHANGED <<questions, answers, guess, obs, seen>>
            /\ UNCHANGED oracleVars]_vars

\* a guess accepted on the third call of its turn, after two rejected ones
C16_AcceptedAfterTwoRejected ==
    /\ pc = "validate_guess"
    /\ turn.agent_calls = 3 /\ turn.duplicates = 2
    /\ Len(guesses) = 2 /\ guesses[2] = guess

\* C17: the final guess of a returned record is the guess validated in the
\* last round played: in a won game the guess of round rounds_used, the one
\* the oracle has just accepted; in a lost game the guess accepted in round
\* max_rounds, and rounds_used is max_rounds.
C17_FinalGuessOfRecord ==
    (pc = "returned" /\ max_rounds >= 1) =>
        /\ Len(guesses) = ret.rounds_used
        /\ ret.final_guess = guesses[ret.rounds_used]
        /\ ret.final_guess = guess
        /\ Norm(ret.final_guess) \in past_guesses_norm
        /\ ret.won => verdicts[ret.rounds_used]
        /\ ~ret.won => ret.rounds_used = max_rounds

\* a game lost after two rounds with two different guesses
C17_LostWithLastGuess ==
    /\ pc = "returned" /\ ~ret.won /\ ret.rounds_used = 2
    /\ guesses[1] # guesses[2] /\ ret.final_guess = guesses[2]

\* the first of the answer keys a dict holds, in the order of the claim
FirstAnswerKey(d) ==
    IF "answer" \in DOMAIN d THEN "answer"
    ELSE IF "response" \in DOMAIN d THEN "response"
    ELSE IF "label" \in DOMAIN d THEN "label"
    ELSE IF "result" \in DOMAIN d THEN "result"
    ELSE "status"

\* C18: for a dict, _normalize_answer returns the normalization of the value
\* under the first key present among answer, response, label, result, status
\* (whatever the later keys hold), and maybe when it holds none of them;
\* {"result": "YES"} gives yes.
C18_FirstKeyWins ==
    (pc \in {"renormalize", "normalized"} /\ raw_ans.t = "dict") =>
        LET d == Heap[raw_ans.id]
        IN  /\ answers[1] =
                  IF DOMAIN d \cap {"answer", "response", "label", "result",
                                    "status"} = {}
                  THEN "maybe"
                  ELSE NormalizeAnswer(d[FirstAnswerKey(d)])
            /\ raw_ans = PyDict(1) => answers[1] = "yes"

\* {"answer": "dunno", "result": True} normalized: maybe, the later key ignored
C18_LaterKeyIgnored ==
    /\ pc = "renormalize" /\ raw_ans = PyDict(8) /\ answers = <<"maybe">>

\* C19: each canonical string normalizes to itself, hence normalizing the
\* normalization of a raw answer gives that normalization again.
C19_Idempotent ==
    /\ \A c \in {"yes", "no", "maybe"} :
          (raw_ans = PyStr(Text(c)) /\ pc \in {"renormalize", "normalized"})
              => answers[1] = c
    /\ pc = "normalized" => answers[2] = answers[1]

\* " yes\t" normalized twice
C19_YesTwice ==
    /\ pc = "normalized"
    /\ raw_ans = PyStr(Padded(<<"y", "e", "s">>))
    /\ answers = <<"yes", "yes">>

\* C20: no game state crosses a game boundary: between two games nothing of
\* a game is left; every game starts at the ASK turn of round 1 with an
\* oracle constructed for it and with empty questions, answers, guesses and
\* accepted set, so the first guess of a game is never a duplicate; what is
\* carried over is the tally, the records and the lines printed.
C20_NoStateAcrossGames ==
    /\ pc \in {"for_games", "run_single_game", "summary", "done"} => FreshFrame
    /\ (pc = "ask" /\ qnum = 1) =>
          /\ questions = <<>> /\ answers = <<>> /\ guesses = <<>>
          /\ past_guesses_norm = {} /\ verdicts = <<>>
          /\ last_call = "none"
    /\ pc \in {"probe_target", "for_rounds", "ask", "validate_question",
               "guess", "while_duplicate", "validate_guess", "exhausted",
               "returned"} => validator.id = i
    /\ (pc \in {"while_duplicate", "validate_guess"} /\ qnum = 1) =>
          turn.agent_calls = 1 /\ turn.duplicates = 0
    /\ Len(results) \in {i - 1, i} /\ wins <= Len(results)

\* the second game's first guess is the guess accepted in the first game
C20_SameGuessNextGame ==
    /\ pc = "validate_guess" /\ i = 2 /\ qnum = 1
    /\ Len(results) = 1 /\ results[1].rounds_used = 1
    /\ Norm(results[1].final_guess) = Norm(guess)
    /\ guesses = <<guess>>

====
